---- MODULE Spec2Model ----
(***************************************************************************)
(* Model of lib/review.py: the Review class, its validating property       *)
(* setters, its identity cache Review.all and its persistence methods      *)
(* against the reviews table.                                              *)
(***************************************************************************)
EXTENDS Integers, Sequences, FiniteSets, TLC

\* ------------------------------------------------------------------ bounds
\* Number of Review objects the process may hold at the same time.
MaxInst == 2
\* Largest primary key the reviews table hands out.
MaxId == 2
\* Number of calls made on the class in one run of the process.
MaxCalls == 4

\* ------------------------------------------------------------------ values
\* Python's None, for an id and for an absent instance.  Ids and object
\* slots are numbered from 1, so `if self.id` is the test id # None.
None == 0

Slots == 1 .. MaxInst
Ids == 1 .. MaxId

\* Ids of the employees table the Employee collaborator looks up.
EmployeeIds == {1, 2}

\* A Python value handed to a setter: its type, and its int or str content.
\* A str is the sequence of its characters.
IntV(n) == [t |-> "int", n |-> n, s |-> <<>>]
StrV(s) == [t |-> "str", n |-> 0, s |-> s]
NoneV == [t |-> "NoneType", n |-> 0, s |-> <<>>]
BoolV == [t |-> "bool", n |-> 1, s |-> <<>>]

ValidYears == {2000, 2001}
ValidSummaries == {<<"a">>, <<" ", "b">>}

YearInputs == {IntV(n) : n \in ValidYears \cup {1999}} \cup {StrV(<<"a">>), NoneV, BoolV}
SummaryInputs ==
    {StrV(s) : s \in ValidSummaries \cup {<<>>, <<" ">>, <<"\t", "\n">>}}
        \cup {IntV(2000), NoneV}
EmployeeInputs == {IntV(n) : n \in EmployeeIds} \cup {NoneV}
IdInputs == {None} \cup Ids
\* The id= argument the constructor is called with.
CtorIds == {None, 1}

\* The arguments the constructor and create() are called with: the valid
\* values and one value that each setter rejects.
CallArgs ==
    { <<IntV(2000), StrV(<<"a">>), IntV(1)>>,
      <<IntV(2001), StrV(<<" ", "b">>), IntV(2)>>,
      <<IntV(1999), StrV(<<"a">>), IntV(1)>>,
      <<IntV(2000), StrV(<<" ">>), IntV(1)>> }

\* ------------------------------------------------------------------ state
VARIABLES
    tableExists,   \* the reviews table exists in the database
    rows,          \* the table: id -> [year, summary, employee_id]
    employees,     \* ids of the rows of the employees table
    inst,          \* the Review objects: slot -> [live, id, year, summary, employee_id]
    all,           \* Review.all: id -> slot of the cached object
    pc,            \* position inside delete(): [at, self, original_id]
    ret,           \* the last call that returned: what was called and what it gave
    calls          \* number of calls made so far

vars == <<tableExists, rows, employees, inst, all, pc, ret, calls>>

NoInst == [live |-> FALSE, id |-> None, year |-> 0, summary |-> <<>>, employee_id |-> None]
NoArgs == [year |-> 0, summary |-> <<>>, employee_id |-> None]
Idle == [at |-> "idle", self |-> None, original_id |-> None]

\* The record of a call: op is the method, self the object it was called on,
\* arg the id it was keyed by, args the values it was given, val the objects
\* it returned (<<>> for None or for nothing), err whether it raised, given
\* the Python values a setter, the constructor or create() was handed.
Ret(op, self, arg, args, val, err) ==
    [op |-> op, self |-> self, arg |-> arg, args |-> args, val |-> val, err |-> err,
     given |-> <<>>]
Given(r, values) == [r EXCEPT !.given = values]

\* ------------------------------------------------------------------ strings
\* The whitespace characters str.strip() removes, among those of the inputs.
Whitespace == {" ", "\t", "\n"}
IsSpace(c) == c \in Whitespace

RECURSIVE lstrip(_)
lstrip(s) == IF s # <<>> /\ IsSpace(Head(s)) THEN lstrip(Tail(s)) ELSE s

RECURSIVE rstrip(_)
rstrip(s) ==
    IF s # <<>> /\ IsSpace(s[Len(s)]) THEN rstrip(SubSeq(s, 1, Len(s) - 1)) ELSE s

\* str.strip()
strip(s) == rstrip(lstrip(s))

\* ------------------------------------------------------------------ Employee
\* Employee.find_by_id(value): truthy when the employees table has that id.
Employee_find_by_id(emps, value) == value.t = "int" /\ value.n \in emps

\* ------------------------------------------------------------------ setters
\* Each setter gives the objects after the assignment and whether it raised
\* ValueError; an assignment that raises leaves the attribute as it was.
Raised(I) == [inst |-> I, err |-> TRUE]
Done(I) == [inst |-> I, err |-> FALSE]

\* A variant of the year setter whose range test is off by one.
year_setter_After2000(I, i, value) ==
    IF value.t # "int" THEN Raised(I)
    ELSE IF value.n <= 2000 THEN Raised(I)
    ELSE Done([I EXCEPT ![i].year = value.n])

year_setter(I, i, value) ==
    IF value.t # "int" THEN Raised(I)
    ELSE IF value.n < 2000 THEN Raised(I)
    ELSE Done([I EXCEPT ![i].year = value.n])

\* A variant of the summary setter that tests len(value) without strip().
summary_setter_NoStrip(I, i, value) ==
    IF value.t # "str" \/ Len(value.s) = 0 THEN Raised(I)
    ELSE Done([I EXCEPT ![i].summary = value.s])

summary_setter(I, i, value) ==
    IF value.t # "str" \/ Len(strip(value.s)) = 0 THEN Raised(I)
    ELSE Done([I EXCEPT ![i].summary = value.s])

\* A variant of the employee_id setter that assigns before it looks up.
employee_id_setter_AssignsFirst(I, emps, i, value) ==
    IF ~Employee_find_by_id(emps, value)
    THEN Raised([I EXCEPT ![i].employee_id = value.n])
    ELSE Done([I EXCEPT ![i].employee_id = value.n])

\* A variant of the employee_id setter that only rejects None.
employee_id_setter_NoLookup(I, emps, i, value) ==
    IF value.t # "int" THEN Raised(I)
    ELSE Done([I EXCEPT ![i].employee_id = value.n])

employee_id_setter(I, emps, i, value) ==
    IF ~Employee_find_by_id(emps, value) THEN Raised(I)
    ELSE Done([I EXCEPT ![i].employee_id = value.n])

\* The three assignments of __init__ and of instance_from_db, in order; the
\* first that raises ends the sequence with the earlier ones already made.
assign_all(I, emps, i, year, summary, employee_id) ==
    LET a == year_setter(I, i, year) IN
    IF a.err THEN a
    ELSE LET b == summary_setter(a.inst, i, summary) IN
         IF b.err THEN b
         ELSE employee_id_setter(b.inst, emps, i, employee_id)

\* Review(year, summary, employee_id, id) built in the free slot i.  An
\* object whose constructor raises is never bound to a name: no object.
Review__init__(I, emps, i, year, summary, employee_id, id) ==
    LET r == assign_all([I EXCEPT ![i] = [NoInst EXCEPT !.live = TRUE, !.id = id]],
                        emps, i, year, summary, employee_id) IN
    IF r.err THEN Raised(I) ELSE r

FreeSlots(I) == {i \in Slots : ~I[i].live}
Live(I) == {i \in Slots : I[i].live}
\* The slot a new object takes.
NewSlot(I) == CHOOSE i \in FreeSlots(I) : \A j \in FreeSlots(I) : i <= j

\* ------------------------------------------------------------------ table
Row(year, summary, employee_id) ==
    [year |-> year, summary |-> summary, employee_id |-> employee_id]
RowOf(o) == Row(o.year, o.summary, o.employee_id)

\* The values of a fetched row as Python values: INTEGER columns come back
\* as int, the TEXT column as str.
RowYear(row) == IntV(row.year)
RowSummary(row) == StrV(row.summary)
RowEmployee(row) == IF row.employee_id = None THEN NoneV ELSE IntV(row.employee_id)

Max(S) == CHOOSE x \in S : \A y \in S : y <= x
\* CURSOR.lastrowid after an INSERT into a table with an INTEGER PRIMARY KEY:
\* one more than the largest id in the table, 1 in an empty table.
lastrowid(R) == IF DOMAIN R = {} THEN 1 ELSE Max(DOMAIN R) + 1

\* The function f without the key k, and with k mapped to v.
Without(f, k) == [x \in DOMAIN f \ {k} |-> f[x]]
With(f, k, v) == [x \in DOMAIN f \cup {k} |-> IF x = k THEN v ELSE f[x]]

EmptyMap == [x \in {} |-> None]

\* The row an earlier process may have left in the table, as row 1.
StoredRow == Row(2001, <<"a">>, 2)

\* ------------------------------------------------------------------ Init
\* The process starts with no Review object and an empty cache.  The database
\* is a file that outlives the process: the table may be missing, or hold the
\* rows an earlier process saved.
Init ==
    /\ tableExists \in BOOLEAN
    /\ rows \in IF tableExists
                THEN {EmptyMap, [k \in {1} |-> StoredRow]}
                ELSE {EmptyMap}
    /\ employees = EmployeeIds
    /\ inst = [i \in Slots |-> NoInst]
    /\ all = EmptyMap
    /\ pc = Idle
    /\ ret = Ret("start", None, None, NoArgs, <<>>, FALSE)
    /\ calls = 0

Ready == pc.at = "idle" /\ calls < MaxCalls

\* What a call leaves behind when all it does is return or raise.
Returns(r) ==
    /\ ret' = r
    /\ calls' = calls + 1
    /\ pc' = Idle

\* ------------------------------------------------------------------ Employee
\* The collaborator adds and removes employees on its own.
Employee_create(e) ==
    /\ Ready
    /\ e \notin employees
    /\ employees' = employees \cup {e}
    /\ Returns(Ret("Employee.create", None, e, NoArgs, <<>>, FALSE))
    /\ UNCHANGED <<tableExists, rows, inst, all>>

Employee_delete(e) ==
    /\ Ready
    /\ e \in employees
    /\ employees' = employees \ {e}
    /\ Returns(Ret("Employee.delete", None, e, NoArgs, <<>>, FALSE))
    /\ UNCHANGED <<tableExists, rows, inst, all>>

\* ------------------------------------------------------------------ Review
\* Review(year, summary, employee_id, id=id)
new_Review(year, summary, employee_id, id) ==
    /\ Ready
    /\ LET i == IF FreeSlots(inst) = {} THEN 1 ELSE NewSlot(inst)
           r == Review__init__(inst, employees, i, year, summary, employee_id, id) IN
       /\ r.err \/ FreeSlots(inst) # {}
       /\ inst' = r.inst
       /\ Returns(Given(Ret("Review", None, None, NoArgs,
                            IF r.err THEN <<>> ELSE <<i>>, r.err),
                        <<year, summary, employee_id>>))
    /\ UNCHANGED <<tableExists, rows, employees, all>>

\* review.year = value
set_year(i, value) ==
    /\ Ready
    /\ inst[i].live
    /\ LET r == year_setter(inst, i, value) IN
       /\ inst' = r.inst
       /\ Returns(Given(Ret("year", i, None, NoArgs, <<>>, r.err), <<value>>))
    /\ UNCHANGED <<tableExists, rows, employees, all>>

\* A variant of the summary assignment that also writes the row of the object.
set_summary_WritesRow(i, value) ==
    /\ Ready
    /\ inst[i].live
    /\ LET r == summary_setter(inst, i, value) IN
       /\ inst' = r.inst
       /\ rows' = IF r.inst[i].id \in DOMAIN rows
                  THEN [rows EXCEPT ![r.inst[i].id].summary = r.inst[i].summary]
                  ELSE rows
       /\ Returns(Given(Ret("summary", i, None, NoArgs, <<>>, r.err), <<value>>))
    /\ UNCHANGED <<tableExists, employees, all>>

\* review.summary = value
set_summary(i, value) ==
    /\ Ready
    /\ inst[i].live
    /\ LET r == summary_setter(inst, i, value) IN
       /\ inst' = r.inst
       /\ Returns(Given(Ret("summary", i, None, NoArgs, <<>>, r.err), <<value>>))
    /\ UNCHANGED <<tableExists, rows, employees, all>>

\* review.employee_id = value
set_employee_id(i, value) ==
    /\ Ready
    /\ inst[i].live
    /\ LET r == employee_id_setter(inst, employees, i, value) IN
       /\ inst' = r.inst
       /\ Returns(Given(Ret("employee_id", i, None, NoArgs, <<>>, r.err), <<value>>))
    /\ UNCHANGED <<tableExists, rows, employees, all>>

\* A variant that creates the table anew (DROP, then CREATE) on every call.
create_table_Anew ==
    /\ Ready
    /\ tableExists' = TRUE
    /\ rows' = EmptyMap
    /\ Returns(Ret("create_table", None, None, NoArgs, <<>>, FALSE))
    /\ UNCHANGED <<employees, inst, all>>

\* CREATE TABLE IF NOT EXISTS reviews
create_table ==
    /\ Ready
    /\ tableExists' = TRUE
    /\ Returns(Ret("create_table", None, None, NoArgs, <<>>, FALSE))
    /\ UNCHANGED <<rows, employees, inst, all>>

\* DROP TABLE IF EXISTS reviews
drop_table ==
    /\ Ready
    /\ tableExists' = FALSE
    /\ rows' = EmptyMap
    /\ Returns(Ret("drop_table", None, None, NoArgs, <<>>, FALSE))
    /\ UNCHANGED <<employees, inst, all>>

\* A variant of the UPDATE statement that leaves the year column out.
UpdateRow_NoYear(R, o) ==
    IF o.id \in DOMAIN R
    THEN [R EXCEPT ![o.id] = Row(R[o.id].year, o.summary, o.employee_id)]
    ELSE R

\* A variant of the UPDATE statement that leaves the summary column out.
UpdateRow_NoSummary(R, o) ==
    IF o.id \in DOMAIN R
    THEN [R EXCEPT ![o.id] = Row(o.year, R[o.id].summary, o.employee_id)]
    ELSE R

\* UPDATE reviews SET year, summary, employee_id WHERE id = o.id
UpdateRow(R, o) == IF o.id \in DOMAIN R THEN [R EXCEPT ![o.id] = RowOf(o)] ELSE R

\* A variant of the INSERT statement that leaves the employee_id column NULL.
InsertRow_NoEmployee(R, o) == With(R, lastrowid(R), Row(o.year, o.summary, None))

\* INSERT INTO reviews (year, summary, employee_id)
InsertRow(R, o) == With(R, lastrowid(R), RowOf(o))

\* review.update(); a statement on a missing table raises.
update(i) ==
    /\ Ready
    /\ inst[i].live
    /\ rows' = IF tableExists THEN UpdateRow(rows, inst[i]) ELSE rows
    /\ Returns(Ret("update", i, inst[i].id, NoArgs, <<>>, ~tableExists))
    /\ UNCHANGED <<tableExists, employees, inst, all>>

\* A variant of the insert branch that does not put the object in Review.all.
SaveNew_NoCache(I, A, R, i) ==
    LET id == lastrowid(R) IN
    [inst |-> [I EXCEPT ![i].id = id], all |-> A, rows |-> InsertRow(R, I[i])]

\* The insert branch of save(): the objects, cache and rows afterwards.
SaveNew(I, A, R, i) ==
    LET id == lastrowid(R) IN
    [inst |-> [I EXCEPT ![i].id = id], all |-> With(A, id, i), rows |-> InsertRow(R, I[i])]

\* review.save()
save(i) ==
    /\ Ready
    /\ inst[i].live
    /\ IF inst[i].id # None
       THEN /\ rows' = IF tableExists THEN UpdateRow(rows, inst[i]) ELSE rows
            /\ UNCHANGED <<inst, all>>
       ELSE IF tableExists
            THEN /\ lastrowid(rows) <= MaxId
                 /\ LET s == SaveNew(inst, all, rows, i) IN
                    /\ inst' = s.inst
                    /\ all' = s.all
                    /\ rows' = s.rows
            ELSE UNCHANGED <<inst, all, rows>>
    /\ Returns(Ret("save", i, inst'[i].id, NoArgs, <<>>, ~tableExists))
    /\ UNCHANGED <<tableExists, employees>>

\* Review.create(year, summary, employee_id)
create(year, summary, employee_id) ==
    /\ Ready
    /\ LET i == IF FreeSlots(inst) = {} THEN 1 ELSE NewSlot(inst)
           r == Review__init__(inst, employees, i, year, summary, employee_id, None) IN
       IF r.err
       THEN /\ Returns(Ret("create", None, None, NoArgs, <<>>, TRUE))
            /\ UNCHANGED <<inst, all, rows>>
       ELSE /\ FreeSlots(inst) # {}
            /\ IF tableExists
               THEN /\ lastrowid(rows) <= MaxId
                    /\ LET s == SaveNew(r.inst, all, rows, i) IN
                       /\ inst' = s.inst
                       /\ all' = s.all
                       /\ rows' = s.rows
                    /\ Returns(Ret("create", None, lastrowid(rows),
                                   Row(year.n, summary.s, employee_id.n), <<i>>, FALSE))
               ELSE \* save() raises: the new object is lost with the call
                    /\ Returns(Ret("create", None, None, NoArgs, <<>>, TRUE))
                    /\ UNCHANGED <<inst, all, rows>>
    /\ UNCHANGED <<tableExists, employees>>

\* ------------------------------------------------------------------ delete
\* A variant that clears self.id before the DELETE is executed: the statement
\* is then keyed by None and removes nothing.
delete_execute_ClearsIdFirst(i) ==
    /\ Ready
    /\ inst[i].live
    /\ IF tableExists
       THEN /\ inst' = [inst EXCEPT ![i].id = None]
            /\ pc' = [at |-> "committed", self |-> i, original_id |-> inst[i].id]
            /\ UNCHANGED <<ret, calls>>
       ELSE /\ Returns(Ret("delete", i, inst[i].id, NoArgs, <<>>, TRUE))
            /\ UNCHANGED inst
    /\ UNCHANGED <<tableExists, employees, rows, all>>

\* review.delete() up to CONN.commit(): original_id is kept, the row is gone.
delete_execute(i) ==
    /\ Ready
    /\ inst[i].live
    /\ IF tableExists
       THEN /\ rows' = Without(rows, inst[i].id)
            /\ pc' = [at |-> "committed", self |-> i, original_id |-> inst[i].id]
            /\ UNCHANGED <<ret, calls>>
       ELSE /\ Returns(Ret("delete", i, inst[i].id, NoArgs, <<>>, TRUE))
            /\ UNCHANGED rows
    /\ UNCHANGED <<tableExists, employees, inst, all>>

\* self.id = None
delete_clear_id ==
    /\ pc.at = "committed"
    /\ inst' = [inst EXCEPT ![pc.self].id = None]
    /\ pc' = [pc EXCEPT !.at = "cleared"]
    /\ UNCHANGED <<tableExists, rows, employees, all, ret, calls>>

\* A variant of the last step that leaves the cache entry in place.
delete_evict_KeepsEntry ==
    /\ pc.at = "cleared"
    /\ Returns(Ret("delete", pc.self, pc.original_id, NoArgs, <<>>, FALSE))
    /\ UNCHANGED <<tableExists, rows, employees, inst, all>>

\* if original_id in Review.all: del Review.all[original_id]
delete_evict ==
    /\ pc.at = "cleared"
    /\ all' = IF pc.original_id \in DOMAIN all THEN Without(all, pc.original_id) ELSE all
    /\ Returns(Ret("delete", pc.self, pc.original_id, NoArgs, <<>>, FALSE))
    /\ UNCHANGED <<tableExists, rows, employees, inst>>

\* ------------------------------------------------------------------ materialization
\* The result of materializing: the objects and the cache afterwards, the
\* objects returned so far, whether a setter raised, and whether a new object
\* was needed when all MaxInst slots were taken.
Mat(I, A, val, err, full) == [inst |-> I, all |-> A, val |-> val, err |-> err, full |-> full]

\* A variant that never looks in the cache: every row gets a new object.
instance_from_db_NoLookup(I, A, emps, id, row) ==
    IF FreeSlots(I) = {} THEN Mat(I, A, <<>>, FALSE, TRUE)
    ELSE LET i == NewSlot(I)
             r == Review__init__(I, emps, i, RowYear(row), RowSummary(row),
                                 RowEmployee(row), id)
         IN IF r.err THEN Mat(I, A, <<>>, TRUE, FALSE)
            ELSE Mat(r.inst, With(A, id, i), <<i>>, FALSE, FALSE)

\* A variant that returns the cached object without refreshing it from the row.
instance_from_db_NoRefresh(I, A, emps, id, row) ==
    IF id \in DOMAIN A THEN Mat(I, A, <<A[id]>>, FALSE, FALSE)
    ELSE IF FreeSlots(I) = {} THEN Mat(I, A, <<>>, FALSE, TRUE)
    ELSE LET i == NewSlot(I)
             r == Review__init__(I, emps, i, RowYear(row), RowSummary(row),
                                 RowEmployee(row), id)
         IN IF r.err THEN Mat(I, A, <<>>, TRUE, FALSE)
            ELSE Mat(r.inst, With(A, id, i), <<i>>, FALSE, FALSE)

\* Review.instance_from_db(row), row = (id, year, summary, employee_id)
instance_from_db(I, A, emps, id, row) ==
    IF id \in DOMAIN A
    THEN LET r == assign_all(I, emps, A[id], RowYear(row), RowSummary(row), RowEmployee(row))
         IN Mat(r.inst, A, <<A[id]>>, r.err, FALSE)
    ELSE IF FreeSlots(I) = {} THEN Mat(I, A, <<>>, FALSE, TRUE)
    ELSE LET i == NewSlot(I)
             r == Review__init__(I, emps, i, RowYear(row), RowSummary(row),
                                 RowEmployee(row), id)
         IN IF r.err THEN Mat(I, A, <<>>, TRUE, FALSE)
            ELSE Mat(r.inst, With(A, id, i), <<i>>, FALSE, FALSE)

\* The ids of the table in the order SELECT * scans them: by rowid.
RECURSIVE ScanOrder(_)
ScanOrder(S) ==
    IF S = {} THEN <<>>
    ELSE LET k == CHOOSE x \in S : \A y \in S : x <= y IN <<k>> \o ScanOrder(S \ {k})

\* [cls.instance_from_db(row) for row in rows]: m is the result so far.
RECURSIVE materialize_rows(_, _, _, _)
materialize_rows(m, emps, R, ids) ==
    IF ids = <<>> \/ m.err \/ m.full THEN m
    ELSE LET one == instance_from_db(m.inst, m.all, emps, Head(ids), R[Head(ids)])
         IN materialize_rows(Mat(one.inst, one.all, m.val \o one.val, one.err, one.full),
                             emps, R, Tail(ids))

\* A variant of get_all() that fetches one row (fetchone) instead of all.
get_all_FirstRowOnly ==
    /\ Ready
    /\ IF tableExists
       THEN LET ids == ScanOrder(DOMAIN rows)
                m == materialize_rows(Mat(inst, all, <<>>, FALSE, FALSE), employees, rows,
                                      IF ids = <<>> THEN ids ELSE <<Head(ids)>>) IN
            /\ ~m.full
            /\ inst' = m.inst
            /\ all' = m.all
            /\ Returns(Ret("get_all", None, None, NoArgs,
                           IF m.err THEN <<>> ELSE m.val, m.err))
       ELSE /\ Returns(Ret("get_all", None, None, NoArgs, <<>>, TRUE))
            /\ UNCHANGED <<inst, all>>
    /\ UNCHANGED <<tableExists, rows, employees>>

\* Review.get_all()
get_all ==
    /\ Ready
    /\ IF tableExists
       THEN LET m == materialize_rows(Mat(inst, all, <<>>, FALSE, FALSE), employees, rows,
                                      ScanOrder(DOMAIN rows)) IN
            /\ ~m.full
            /\ inst' = m.inst
            /\ all' = m.all
            /\ Returns(Ret("get_all", None, None, NoArgs,
                           IF m.err THEN <<>> ELSE m.val, m.err))
       ELSE /\ Returns(Ret("get_all", None, None, NoArgs, <<>>, TRUE))
            /\ UNCHANGED <<inst, all>>
    /\ UNCHANGED <<tableExists, rows, employees>>

\* Review.find_by_id(id)
find_by_id(id) ==
    /\ Ready
    /\ IF ~tableExists
       THEN /\ Returns(Ret("find_by_id", None, id, NoArgs, <<>>, TRUE))
            /\ UNCHANGED <<inst, all>>
       ELSE IF id \notin DOMAIN rows
       THEN /\ Returns(Ret("find_by_id", None, id, NoArgs, <<>>, FALSE))
            /\ UNCHANGED <<inst, all>>
       ELSE LET m == instance_from_db(inst, all, employees, id, rows[id]) IN
            /\ ~m.full
            /\ inst' = m.inst
            /\ all' = m.all
            /\ Returns(Ret("find_by_id", None, id, NoArgs,
                           IF m.err THEN <<>> ELSE m.val, m.err))
    /\ UNCHANGED <<tableExists, rows, employees>>

\* ------------------------------------------------------------------ Next
Next ==
    \/ \E e \in EmployeeIds : Employee_create(e)
    \/ \E e \in EmployeeIds : Employee_delete(e)
    \/ \E a \in CallArgs, id \in CtorIds : new_Review(a[1], a[2], a[3], id)
    \/ \E i \in Slots, v \in YearInputs : set_year(i, v)
    \/ \E i \in Slots, v \in SummaryInputs : set_summary(i, v)
    \/ \E i \in Slots, v \in EmployeeInputs : set_employee_id(i, v)
    \/ create_table
    \/ drop_table
    \/ \E i \in Slots : save(i)
    \/ \E a \in CallArgs : create(a[1], a[2], a[3])
    \/ \E i \in Slots : update(i)
    \/ \E i \in Slots : delete_execute(i)
    \/ delete_clear_id
    \/ delete_evict
    \/ get_all
    \/ \E id \in IdInputs : find_by_id(id)

Spec == Init /\ [][Next]_vars

\* ------------------------------------------------------------------ properties
\* A step in which a call of method op returns (or raises).
Returned(op) == calls' = calls + 1 /\ ret'.op = op

\* The object o has a row of its own id whose columns equal its attributes.
HasMatchingRow(R, o) == o.id \in DOMAIN R /\ R[o.id] = RowOf(o)

\* C1 as stated: whenever no call is in progress, every object with an id has
\* exactly one row with that id (the id is the table's primary key, so a row
\* with that id is the only one), and the row's year, summary and
\* employee_id equal the object's attributes.
C1_EveryObjectMatchesItsRow ==
    pc.at = "idle" =>
        \A i \in Live(inst) : inst[i].id # None => tableExists /\ HasMatchingRow(rows, inst[i])

\* C1 amended: when save() or update() returns normally on an object, the
\* table holds no row of the object's id whose columns differ from the object's
\* attributes; and when the save() was called on an object without an id,
\* the object now has an id and the table holds the row of that id.
C1_RowMatchesAfterSaveOrUpdate ==
    [][\A i \in Slots :
          ((Returned("save") \/ Returned("update")) /\ ret'.self = i /\ ~ret'.err) =>
              /\ inst'[i].id \in DOMAIN rows' => rows'[inst'[i].id] = RowOf(inst'[i])
              /\ (Returned("save") /\ inst[i].id = None) =>
                     inst'[i].id # None /\ HasMatchingRow(rows', inst'[i])]_vars

\* C1 witness: update() has returned on an object whose row now holds a
\* combination of values that no constructor call and no earlier process
\* wrote: the object was changed by a setter and then updated.
C1_Witness ==
    /\ pc.at = "idle" /\ ret.op = "update" /\ ~ret.err
    /\ HasMatchingRow(rows, inst[ret.self])
    /\ rows[inst[ret.self].id] = Row(2001, <<"a">>, 1)

\* C2 as stated: at most one live object per persisted id: no two distinct
\* live objects carry the same id when that id is the id of a row.
C2_OneObjectPerId ==
    \A i, j \in Live(inst) :
        (i # j /\ inst[i].id # None /\ inst[i].id \in DOMAIN rows) => inst[i].id # inst[j].id

\* C3: identity stability.  A find_by_id(k) that returns an object returns the
\* object the cache holds under k, and the object the cache holds under k
\* stays the same in every step that keeps row k in the table; so two
\* find_by_id(k) calls with no deletion of row k between them return the same
\* object.
C3_IdentityStable ==
    [][/\ (Returned("find_by_id") /\ ~ret'.err /\ ret'.val # <<>>) =>
             ret'.arg \in DOMAIN all' /\ ret'.val = <<all'[ret'.arg]>>
       /\ \A k \in Ids :
             (k \in DOMAIN rows /\ k \in DOMAIN rows' /\ k \in DOMAIN all) =>
                 k \in DOMAIN all' /\ all'[k] = all[k]]_vars

\* C3 witness: three calls were made, the last a find_by_id(1) that returned
\* object 1 for the row an earlier process stored; object 2 is an unsaved
\* object.  Object 1 is older than object 2, so the first call was the lookup
\* (find_by_id or get_all) that built object 1 from the row, the second built
\* object 2, and the third returned object 1 again.
C3_Witness ==
    /\ calls = 3 /\ pc.at = "idle"
    /\ ret.op = "find_by_id" /\ ret.arg = 1 /\ ret.val = <<1>> /\ ~ret.err
    /\ 1 \in DOMAIN rows /\ rows[1] = StoredRow
    /\ inst[2].live /\ inst[2].id = None

\* C4: instance_from_db(row), as find_by_id(k) applies it to row k when the
\* row's employee exists.  If the cache holds an object under k, that object
\* is returned, its year, summary and employee_id are the row's and nothing
\* else changes; otherwise a new object with id k and the row's values is
\* built, put in the cache under k and returned.
C4_InstanceFromDb ==
    [][\A k \in Ids :
          (/\ Returned("find_by_id") /\ ret'.arg = k
           /\ tableExists /\ k \in DOMAIN rows /\ rows[k].employee_id \in employees) =>
              /\ ~ret'.err
              /\ IF k \in DOMAIN all
                 THEN /\ ret'.val = <<all[k]>>
                      /\ all' = all
                      /\ inst' = [inst EXCEPT ![all[k]].year = rows[k].year,
                                              ![all[k]].summary = rows[k].summary,
                                              ![all[k]].employee_id = rows[k].employee_id]
                 ELSE \E x \in FreeSlots(inst) :
                      /\ ret'.val = <<x>>
                      /\ inst' = [inst EXCEPT ![x] =
                                      [live |-> TRUE, id |-> k, year |-> rows[k].year,
                                       summary |-> rows[k].summary,
                                       employee_id |-> rows[k].employee_id]]
                      /\ DOMAIN all' = DOMAIN all \cup {k}
                      /\ all'[k] = x
                      /\ \A j \in DOMAIN all : all'[j] = all[j]]_vars

\* C4 witness: find_by_id(1) returned the cached object 1 with the row's values
\* while the younger object 2 sits in the cache under id 2.
C4_Witness ==
    /\ pc.at = "idle"
    /\ ret.op = "find_by_id" /\ ret.arg = 1 /\ ret.val = <<1>> /\ ~ret.err
    /\ 1 \in DOMAIN rows /\ RowOf(inst[1]) = rows[1]
    /\ inst[2].live /\ inst[2].id = 2 /\ 2 \in DOMAIN all /\ all[2] = 2

\* C5: when delete() returns on an object that had an id, the table holds no
\* row of that id, the object's id is None and the cache has no entry under
\* that id; and a find_by_id(that id) called next returns None.
C5_DeleteThenFind ==
    [][/\ (Returned("delete") /\ ~ret'.err /\ ret'.arg # None) =>
             /\ ret'.arg \notin DOMAIN rows'
             /\ inst'[ret'.self].id = None
             /\ ret'.arg \notin DOMAIN all'
       /\ (/\ ret.op = "delete" /\ ~ret.err /\ ret.arg # None
           /\ Returned("find_by_id") /\ ret'.arg = ret.arg) =>
             ~ret'.err /\ ret'.val = <<>>]_vars

\* C5 witness: two calls were made: the first built object 1 from the row an
\* earlier process stored as row 1, the second is the delete() on it that has
\* returned; row 1, the object's id and the cache entry are gone.
C5_Witness ==
    /\ calls = 2 /\ pc.at = "idle" /\ tableExists
    /\ ret.op = "delete" /\ ret.self = 1 /\ ret.arg = 1 /\ ~ret.err
    /\ inst[1].live /\ inst[1].id = None /\ RowOf(inst[1]) = StoredRow
    /\ all = EmptyMap /\ rows = EmptyMap

\* C6: when save() returns normally on an object that has an id, the table
\* has the same ids as before, every other row is unchanged, the row of that id
\* (if any) holds the object's values, and no object and no cache entry
\* changes; on an object without an id, the table gains exactly one row, with
\* the object's year, summary and employee_id, under an id no row had, the
\* object gets that id and the cache maps that id to the object.
C6_Save ==
    [][\A i \in Slots :
          (Returned("save") /\ ret'.self = i /\ ~ret'.err) =>
              IF inst[i].id # None
              THEN /\ inst' = inst /\ all' = all
                   /\ DOMAIN rows' = DOMAIN rows
                   /\ \A k \in DOMAIN rows :
                         rows'[k] = IF k = inst[i].id THEN RowOf(inst[i]) ELSE rows[k]
              ELSE \E k \in Ids \ DOMAIN rows :
                   /\ DOMAIN rows' = DOMAIN rows \cup {k}
                   /\ rows'[k] = RowOf(inst[i])
                   /\ \A j \in DOMAIN rows : rows'[j] = rows[j]
                   /\ inst' = [inst EXCEPT ![i].id = k]
                   /\ k \in DOMAIN all' /\ all'[k] = i
                   /\ \A j \in DOMAIN all \ {k} : j \in DOMAIN all' /\ all'[j] = all[j]]_vars

\* C6 witness: save() returned on object 1, which now has id 2, next to the
\* row an earlier process stored as row 1; row 2 holds the object's values
\* and the cache maps 2 to the object.
C6_Witness ==
    /\ pc.at = "idle" /\ ret.op = "save" /\ ret.self = 1 /\ ~ret.err
    /\ DOMAIN rows = {1, 2} /\ rows[1] = StoredRow
    /\ inst[1].id = 2 /\ rows[2] = RowOf(inst[1])
    /\ 2 \in DOMAIN all /\ all[2] = 1

\* The object and the id of the update() that has just returned normally on an
\* object whose id is the id of a row.
UpdatedSavedObject ==
    /\ pc.at = "idle" /\ ret.op = "update" /\ ~ret.err
    /\ ret.arg # None /\ ret.arg \in DOMAIN rows

\* C7 as stated: when update() returns on an object whose id is the id of a
\* row, that row holds the object's year, summary and employee_id; and a
\* find_by_id(id) called next returns an object with those values.
C7_UpdateThenFindReturns ==
    [][/\ \A i \in Slots :
             (Returned("update") /\ ret'.self = i /\ ~ret'.err
                  /\ inst[i].id \in DOMAIN rows) =>
                 HasMatchingRow(rows', inst'[i])
       /\ (UpdatedSavedObject /\ Returned("find_by_id") /\ ret'.arg = ret.arg) =>
             /\ ~ret'.err /\ ret'.val # <<>>
             /\ RowOf(inst'[ret'.val[1]]) = RowOf(inst[ret.self])]_vars

\* C7 amended: as C7, but the find_by_id(id) called next returns an object
\* with those values when the object's employee_id is the id of an employee,
\* and raises when it is not.
C7_UpdateThenFind ==
    [][/\ \A i \in Slots :
             (Returned("update") /\ ret'.self = i /\ ~ret'.err
                  /\ inst[i].id \in DOMAIN rows) =>
                 HasMatchingRow(rows', inst'[i])
       /\ (UpdatedSavedObject /\ Returned("find_by_id") /\ ret'.arg = ret.arg) =>
             IF inst[ret.self].employee_id \in employees
             THEN /\ ~ret'.err /\ ret'.val # <<>>
                  /\ RowOf(inst'[ret'.val[1]]) = RowOf(inst[ret.self])
             ELSE ret'.err /\ ret'.val = <<>>]_vars

\* C7 witness: three calls were made: create(2000, "a", 1) saved object 1 as
\* row 1, its summary was set to " b", and the update() that has returned
\* put the object's values in row 1.
C7_Witness ==
    /\ calls = 3 /\ UpdatedSavedObject
    /\ ret.self = 1 /\ ret.arg = 1 /\ 1 \in DOMAIN all /\ all[1] = 1
    /\ rows[1] = Row(2000, <<" ", "b">>, 1)
    /\ RowOf(inst[1]) = rows[1]

\* C8: round trip.  When create(year, summary, employee_id) has returned an
\* object, a find_by_id(id of that object) called next returns an object whose
\* year, summary and employee_id are the arguments of the create().
C8_CreateThenFind ==
    [][(/\ pc.at = "idle" /\ ret.op = "create" /\ ~ret.err
        /\ Returned("find_by_id") /\ ret'.arg = inst[ret.val[1]].id) =>
           /\ ~ret'.err /\ ret'.val # <<>>
           /\ inst'[ret'.val[1]].live
           /\ RowOf(inst'[ret'.val[1]]) = ret.args]_vars

\* C8 witness: create(2001, " b", 2) then find_by_id(2), next to the row an
\* earlier process stored as row 1.
C8_Witness ==
    /\ calls = 2 /\ pc.at = "idle"
    /\ ret.op = "find_by_id" /\ ret.arg = 2 /\ ret.val = <<1>> /\ ~ret.err
    /\ RowOf(inst[1]) = Row(2001, <<" ", "b">>, 2)
    /\ DOMAIN rows = {1, 2} /\ rows[1] = StoredRow

\* C9: when get_all() is called on a table whose rows all name an existing
\* employee (as the rows of N create() calls do), it returns as many objects
\* as the table has rows, all different, and their ids are exactly the ids of
\* the rows.
C9_GetAll ==
    [][(/\ Returned("get_all") /\ tableExists
        /\ \A k \in DOMAIN rows : rows[k].employee_id \in employees) =>
           /\ ~ret'.err
           /\ Len(ret'.val) = Cardinality(DOMAIN rows)
           /\ \A a, b \in 1 .. Len(ret'.val) : a # b => ret'.val[a] # ret'.val[b]
           /\ \A a \in 1 .. Len(ret'.val) : inst'[ret'.val[a]].live
           /\ {inst'[ret'.val[a]].id : a \in 1 .. Len(ret'.val)} = DOMAIN rows]_vars

\* C9 witness: on a table that was empty, two create() calls and then
\* get_all(), which returned the two objects.
C9_Witness ==
    /\ calls = 3 /\ pc.at = "idle"
    /\ ret.op = "get_all" /\ ~ret.err /\ Len(ret.val) = 2
    /\ DOMAIN rows = {1, 2}
    /\ rows[1] \in {Row(2000, <<"a">>, 1), Row(2001, <<" ", "b">>, 2)}
    /\ inst[1].id = 1 /\ inst[2].id = 2

\* C10: inside delete(), once the DELETE is committed the row of original_id
\* is gone while the object still has that id and the cache is as it was; an
\* object's id is cleared, and a cache entry removed, only in a state where the
\* table no longer has the row of that id.
C10_RowRemovedFirst ==
    [][/\ (pc'.at = "committed" /\ pc'.original_id # None) =>
             /\ pc'.original_id \notin DOMAIN rows'
             /\ inst'[pc'.self].id = pc'.original_id
             /\ all' = all
       /\ \A i \in Slots :
             (inst[i].live /\ inst[i].id # None /\ inst'[i].id = None) =>
                 inst[i].id \notin DOMAIN rows
       /\ \A k \in DOMAIN all : k \notin DOMAIN all' => k \notin DOMAIN rows]_vars

\* C10 witness: delete() on the object built from row 1 has committed the
\* DELETE: row 1 is gone, the object still has id 1 and the cache still maps
\* 1 to it.
C10_Witness ==
    /\ pc.at = "committed" /\ pc.original_id = 1
    /\ inst[pc.self].id = 1 /\ RowOf(inst[pc.self]) = StoredRow
    /\ 1 \notin DOMAIN rows
    /\ 1 \in DOMAIN all /\ all[1] = pc.self

\* What the validation contract accepts, stated on the value alone.
IsYear(v) == v.t = "int" /\ v.n >= 2000
IsSummary(v) == v.t = "str" /\ \E k \in 1 .. Len(v.s) : v.s[k] \notin {" ", "\t", "\n"}

\* C11: an assignment of employee_id raises exactly when Employee.find_by_id
\* finds no record for the value in the employees table as it is at that
\* moment, and otherwise stores the value; the constructor, given a valid year
\* and summary, raises exactly in the same case.
C11_EmployeeMustExist ==
    [][/\ Returned("employee_id") =>
             /\ ret'.err <=> ~Employee_find_by_id(employees, ret'.given[1])
             /\ ~ret'.err => inst'[ret'.self].employee_id = ret'.given[1].n
       /\ (Returned("Review") /\ IsYear(ret'.given[1]) /\ IsSummary(ret'.given[2])) =>
             /\ ret'.err <=> ~Employee_find_by_id(employees, ret'.given[3])
             /\ ~ret'.err => inst'[ret'.val[1]].employee_id = ret'.given[3].n]_vars

\* C11 witness: employee 1 is no longer in the employees table and the
\* assignment employee_id = 1 has raised on an object that was built with
\* employee_id 1 while the employee existed.
C11_Witness ==
    /\ pc.at = "idle" /\ ret.op = "employee_id" /\ ret.err
    /\ ret.given = <<IntV(1)>> /\ 1 \notin employees
    /\ inst[ret.self].employee_id = 1

\* C12: an assignment of year succeeds, and stores the value, exactly when the
\* value is an int that is at least 2000; the constructor, given a valid
\* summary and an existing employee, succeeds exactly in the same case.
C12_YearFrom2000 ==
    [][/\ Returned("year") =>
             /\ ~ret'.err <=> IsYear(ret'.given[1])
             /\ ~ret'.err => inst'[ret'.self].year = ret'.given[1].n
       /\ (/\ Returned("Review") /\ IsSummary(ret'.given[2])
           /\ Employee_find_by_id(employees, ret'.given[3])) =>
             /\ ~ret'.err <=> IsYear(ret'.given[1])
             /\ ~ret'.err => inst'[ret'.val[1]].year = ret'.given[1].n]_vars

\* C12 witness: the assignment year = 2000, the smallest year accepted, has
\* succeeded on an object whose year was 2001.
C12_Witness ==
    /\ pc.at = "idle" /\ ret.op = "year" /\ ~ret.err
    /\ ret.given = <<IntV(2000)>> /\ inst[ret.self].year = 2000
    /\ RowOf(inst[ret.self]) = Row(2000, <<" ", "b">>, 2)

\* C13: an assignment of summary succeeds, and stores the value, exactly when
\* the value is a str with a character that is not whitespace; the
\* constructor, given a valid year and an existing employee, succeeds exactly
\* in the same case.
C13_SummaryNotBlank ==
    [][/\ Returned("summary") =>
             /\ ~ret'.err <=> IsSummary(ret'.given[1])
             /\ ~ret'.err => inst'[ret'.self].summary = ret'.given[1].s
       /\ (/\ Returned("Review") /\ IsYear(ret'.given[1])
           /\ Employee_find_by_id(employees, ret'.given[3])) =>
             /\ ~ret'.err <=> IsSummary(ret'.given[2])
             /\ ~ret'.err => inst'[ret'.val[1]].summary = ret'.given[2].s]_vars

\* C13 witness: the assignment of a summary made of a tab and a newline has
\* raised and the object still has its summary.
C13_Witness ==
    /\ pc.at = "idle" /\ ret.op = "summary" /\ ret.err
    /\ ret.given = <<StrV(<<"\t", "\n">>)>>
    /\ inst[ret.self].summary \in ValidSummaries

\* C14: create_table on an existing table leaves the table and its rows as
\* they are, drop_table on a missing table changes nothing, and a second call
\* of either right after the first leaves the table as the first left it;
\* neither touches an object or the cache.
C14_SchemaIdempotent ==
    [][/\ Returned("create_table") =>
             /\ tableExists' /\ ~ret'.err
             /\ tableExists => rows' = rows
             /\ ret.op = "create_table" => (tableExists' = tableExists /\ rows' = rows)
             /\ inst' = inst /\ all' = all
       /\ Returned("drop_table") =>
             /\ ~tableExists' /\ rows' = EmptyMap /\ ~ret'.err
             /\ ~tableExists => rows' = rows
             /\ ret.op = "drop_table" => (tableExists' = tableExists /\ rows' = rows)
             /\ inst' = inst /\ all' = all]_vars

\* C14 witness: create_table has returned and the table holds a row: the
\* table existed before the call and kept its row.
C14_Witness ==
    /\ pc.at = "idle" /\ ret.op = "create_table" /\ tableExists
    /\ 1 \in DOMAIN rows /\ rows[1] = StoredRow

\* Every entry k -> object of the identity cache has object.id = k.
KeysMatchIds(I, A) == \A k \in DOMAIN A : I[A[k]].live /\ I[A[k]].id = k

\* C15 as stated: whenever no call is in progress, every entry k -> object of
\* the cache has object.id = k; and the step of delete() that evicts removes
\* no entry that maps to an object other than the one delete() was called on.
C15_CacheKeysAndOwnEviction ==
    [][/\ pc'.at = "idle" => KeysMatchIds(inst', all')
       /\ Returned("delete") =>
             \A k \in DOMAIN all \ DOMAIN all' : all[k] = ret'.self]_vars

\* C16 as stated: whenever no call is in progress, every key of the identity
\* cache is the id of a row of the reviews table.
C16_NoStaleCacheKeys ==
    pc.at = "idle" => \A k \in DOMAIN all : tableExists /\ k \in DOMAIN rows

\* C17: an assignment to year, summary or employee_id that raises leaves every
\* object (the assigned attribute, the other attributes and the id), the table
\* and its rows, and the identity cache as they were.
C17_FailedAssignmentChangesNothing ==
    [][((Returned("year") \/ Returned("summary") \/ Returned("employee_id")) /\ ret'.err) =>
          /\ inst' = inst
          /\ rows' = rows /\ tableExists' = tableExists
          /\ all' = all]_vars

\* C17 witness: the assignment employee_id = None has raised on the cached
\* object of row 1, and the object still equals its row.
C17_Witness ==
    /\ pc.at = "idle" /\ ret.op = "employee_id" /\ ret.err
    /\ ret.given = <<NoneV>>
    /\ 1 \in DOMAIN all /\ all[1] = ret.self
    /\ inst[ret.self].id = 1 /\ HasMatchingRow(rows, inst[ret.self])

\* C18 as stated: when find_by_id() or get_all() raises while it builds the
\* objects of fetched rows, no object has a field changed and the identity
\* cache has no new entry.
C18_FailedFetchChangesNothing ==
    [][((Returned("find_by_id") \/ Returned("get_all")) /\ ret'.err /\ tableExists) =>
          /\ \A i \in Live(inst) : inst'[i] = inst[i]
          /\ DOMAIN all' \subseteq DOMAIN all]_vars

\* A step that begins, carries on or ends a call of delete().
DeleteStep == pc.at # "idle" \/ pc'.at # "idle" \/ Returned("delete")

\* C19: find_by_id() and get_all() leave the table and its rows as they are;
\* the setters and the constructor leave the table, its rows and the identity
\* cache as they are; and a step that changes the table or a row belongs to
\* save(), create(), update(), delete(), create_table() or drop_table().
C19_Frame ==
    [][/\ (Returned("find_by_id") \/ Returned("get_all")) =>
             rows' = rows /\ tableExists' = tableExists
       /\ (Returned("year") \/ Returned("summary") \/ Returned("employee_id")
               \/ Returned("Review")) =>
             rows' = rows /\ tableExists' = tableExists /\ all' = all
       /\ (rows' # rows \/ tableExists' # tableExists) =>
             \/ Returned("save") \/ Returned("create") \/ Returned("update")
             \/ Returned("create_table") \/ Returned("drop_table")
             \/ DeleteStep]_vars

\* C19 witness: a summary assignment has succeeded on the cached object of
\* row 1, and the row still holds the summary it had.
C19_Witness ==
    /\ pc.at = "idle" /\ ret.op = "summary" /\ ~ret.err
    /\ 1 \in DOMAIN all /\ all[1] = ret.self /\ inst[ret.self].id = 1
    /\ 1 \in DOMAIN rows /\ rows[1] = StoredRow
    /\ inst[ret.self].summary = <<" ", "b">>

====
